---- MODULE Spec2Model ----
(***************************************************************************)
(* MazeFinder-GeneticAlgorithm: the thread pool, the fitness evaluator,    *)
(* the genetic operators and the generation driver of src/MazeFinder.cpp.  *)
(*                                                                         *)
(* Indices: C++ vectors are 0-based; population, fitness and genomes are   *)
(* TLA+ sequences here, so slot i of the source is slot i+1 of the model.  *)
(* Maze coordinates x, y keep the source's 0-based values.                 *)
(***************************************************************************)
EXTENDS Integers, Sequences, FiniteSets, TLC

(* ---- sizes (src/MazeFinder.cpp:13-17, scaled down for model checking) -- *)
MAZE_SIZE == 2
HalfPop == 2
POPULATION_SIZE == 2 * HalfPop
GENERATIONS == 2
THREAD_COUNT == 2
GENOME_LENGTH == 2

(* ---- enum Direction (src/MazeFinder.cpp:20) ---------------------------- *)
UP == 0
DOWN == 1
LEFT == 2
RIGHT == 3
STAND == 4
Direction == {UP, DOWN, LEFT, RIGHT, STAND}

Genome == [1..GENOME_LENGTH -> Direction]
Cells == 0..(MAZE_SIZE - 1)
Maze == [Cells -> [Cells -> {0, 1}]]
Workers == 1..THREAD_COUNT
Slots == 1..POPULATION_SIZE

(* main(): Maze maze(MAZE_SIZE, vector<int>(MAZE_SIZE, 0)) -- all cells open *)
OpenMaze == [y \in Cells |-> [x \in Cells |-> 0]]

(* ---- evaluateFitness --------------------------------------------------- *)
StartPos == [x |-> 0, y |-> 0]

(* the switch of lines 104-110: one move, clamped at the grid's edges *)
applyMove(pos, move) ==
    CASE move = UP    -> IF pos.y > 0 THEN [pos EXCEPT !.y = @ - 1] ELSE pos
      [] move = DOWN  -> IF pos.y < MAZE_SIZE - 1 THEN [pos EXCEPT !.y = @ + 1] ELSE pos
      [] move = LEFT  -> IF pos.x > 0 THEN [pos EXCEPT !.x = @ - 1] ELSE pos
      [] move = RIGHT -> IF pos.x < MAZE_SIZE - 1 THEN [pos EXCEPT !.x = @ + 1] ELSE pos
      [] OTHER        -> pos

InGrid(pos) == pos.x \in Cells /\ pos.y \in Cells

(* maze[y][x] of line 111.  An index outside the grid would be an          *)
(* out-of-bounds vector read; AllLookupsInGrid (C10) shows none occurs, so *)
(* the second branch is never taken.                                       *)
cellAt(maze, pos) == IF InGrid(pos) THEN maze[pos.y][pos.x] ELSE 0

(* walk without the break of line 111: every move of the genome is applied *)
RECURSIVE walkNoBreak(_, _, _, _)
walkNoBreak(genome, maze, k, trace) ==
    IF k > Len(genome) THEN trace
    ELSE LET cur == IF trace = <<>> THEN StartPos ELSE trace[Len(trace)]
         IN  walkNoBreak(genome, maze, k + 1, Append(trace, applyMove(cur, genome[k])))

(* The loop of lines 103-112.  The result is the sequence of positions     *)
(* looked up in the maze, one per move applied; the loop breaks after the  *)
(* first lookup that finds a wall.                                         *)
RECURSIVE walk(_, _, _, _)
walk(genome, maze, k, trace) ==
    IF k > Len(genome) THEN trace
    ELSE LET cur == IF trace = <<>> THEN StartPos ELSE trace[Len(trace)]
             nxt == applyMove(cur, genome[k])
         IN  IF cellAt(maze, nxt) = 1
             THEN Append(trace, nxt)
             ELSE walk(genome, maze, k + 1, Append(trace, nxt))

walkTrace(genome, maze) == walk(genome, maze, 1, <<>>)

finalPos(genome, maze) ==
    LET t == walkTrace(genome, maze)
    IN  IF t = <<>> THEN StartPos ELSE t[Len(t)]

(* line 113: return (MAZE_SIZE - y) + (MAZE_SIZE - x) *)
costOf(pos) == (MAZE_SIZE - pos.y) + (MAZE_SIZE - pos.x)

evaluateFitness(genome, maze) == costOf(finalPos(genome, maze))

(* crossover copying parent2 from one locus too late *)
crossoverLateSplit(parent1, parent2, crossover_point) ==
    [j \in 1..GENOME_LENGTH |->
        IF j - 1 > crossover_point THEN parent2[j] ELSE parent1[j]]

(* ---- crossover and mutate ---------------------------------------------- *)
(* lines 122-123: child = parent1, then parent2[crossover_point..] is      *)
(* copied over child[crossover_point..] (crossover_point is 0-based)       *)
crossover(parent1, parent2, crossover_point) ==
    [j \in 1..GENOME_LENGTH |->
        IF j - 1 >= crossover_point THEN parent2[j] ELSE parent1[j]]

(* mutate overwriting the following locus as well *)
mutateTwoLoci(genome, mutation_point, dir) ==
    [genome EXCEPT ![mutation_point + 1] = dir,
                   ![((mutation_point + 1) % GENOME_LENGTH) + 1] = dir]

(* line 134: genome[mutation_point] = dir (mutation_point is 0-based) *)
mutate(genome, mutation_point, dir) ==
    [genome EXCEPT ![mutation_point + 1] = dir]

(* the ranges of the uniform distributions of lines 120, 131, 132 *)
PointDraws == 0..(GENOME_LENGTH - 1)
DirDraws == 0..4

(* ---- std::partial_sort with the comparator of lines 191-193 ------------ *)
(* The comparator never reads a genome: it takes the ADDRESS of each       *)
(* operand, turns it into an index by subtracting population.data(), and   *)
(* compares fitness at the two indices.  For operands that are elements of *)
(* the vector this is the fitness stored at the operand's CURRENT slot.    *)
(* The sort is modelled as libstdc++ runs it (g++ is the README's          *)
(* toolchain): __heap_select on [first, middle) followed by __sort_heap,   *)
(* working on the sequence s of what each slot holds.  Offsets (hole,      *)
(* child, parent) are 0-based as in the library; s is 1-based.             *)
compAt(fitness, p, q) == fitness[p + 1] < fitness[q + 1]

Ok(s) == [crashed |-> FALSE, s |-> s]
Crashed == [crashed |-> TRUE, s |-> <<>>]

(* __push_heap: comp(first + parent, value), where value is a local copy   *)
(* outside the vector.  &value - population.data() subtracts pointers into *)
(* different objects and indexes fitness with the result: undefined        *)
(* behaviour.  Its outcomes are a fault on the wild read, or a comparison  *)
(* on an arbitrary int, i.e. either answer.                                *)
RECURSIVE pushHeap(_, _, _, _)
pushHeap(s, holeIndex, topIndex, value) ==
    LET parent == (holeIndex - 1) \div 2
        placed == Ok([s EXCEPT ![holeIndex + 1] = value])
    IN  IF holeIndex > topIndex
        THEN {Crashed, placed} \cup
             pushHeap([s EXCEPT ![holeIndex + 1] = s[parent + 1]], parent, topIndex, value)
        ELSE {placed}

(* the while loop of __adjust_heap: both operands are vector elements *)
RECURSIVE siftDown(_, _, _, _)
siftDown(s, fitness, holeIndex, len) ==
    IF holeIndex < (len - 1) \div 2
    THEN LET right == 2 * (holeIndex + 1)
             secondChild == IF compAt(fitness, right, right - 1) THEN right - 1 ELSE right
         IN  siftDown([s EXCEPT ![holeIndex + 1] = s[secondChild + 1]], fitness, secondChild, len)
    ELSE [s |-> s, hole |-> holeIndex]

adjustHeap(s, fitness, holeIndex, len, value) ==
    LET d == siftDown(s, fitness, holeIndex, len)
        e == IF len % 2 = 0 /\ d.hole = (len - 2) \div 2
             THEN [s |-> [d.s EXCEPT ![d.hole + 1] = d.s[2 * (d.hole + 1)]],
                   hole |-> 2 * (d.hole + 1) - 1]
             ELSE d
    IN  pushHeap(e.s, e.hole, holeIndex, value)

(* a fault ends the sort; the sequences of the other outcomes go on *)
faults(outs) == {o \in outs : o.crashed}
survivors(outs) == {o.s : o \in outs \ faults(outs)}

RECURSIVE makeHeapFrom(_, _, _, _)
makeHeapFrom(s, fitness, len, parent) ==
    LET outs == adjustHeap(s, fitness, parent, len, s[parent + 1])
    IN  IF parent = 0 THEN outs
        ELSE faults(outs) \cup
             UNION {makeHeapFrom(t, fitness, len, parent - 1) : t \in survivors(outs)}

makeHeap(s, fitness, len) ==
    IF len < 2 THEN {Ok(s)} ELSE makeHeapFrom(s, fitness, len, (len - 2) \div 2)

(* __pop_heap(first, first + len, first + result): value = *result;        *)
(* *result = *first; __adjust_heap(first, 0, len, value)                   *)
popHeap(s, fitness, len, result) ==
    adjustHeap([s EXCEPT ![result + 1] = s[1]], fitness, 0, len, s[result + 1])

(* the loop of __heap_select over i in [middle, last) *)
RECURSIVE heapSelectFrom(_, _, _, _)
heapSelectFrom(s, fitness, middle, i) ==
    IF i >= Len(s) THEN {Ok(s)}
    ELSE IF compAt(fitness, i, 0)
         THEN LET outs == popHeap(s, fitness, middle, i)
              IN  faults(outs) \cup
                  UNION {heapSelectFrom(t, fitness, middle, i + 1) : t \in survivors(outs)}
         ELSE heapSelectFrom(s, fitness, middle, i + 1)

heapSelect(s, fitness, middle) ==
    LET outs == makeHeap(s, fitness, middle)
    IN  faults(outs) \cup
        UNION {heapSelectFrom(t, fitness, middle, middle) : t \in survivors(outs)}

(* __sort_heap on [first, first + last) *)
RECURSIVE sortHeap(_, _, _)
sortHeap(s, fitness, last) ==
    IF last > 1
    THEN LET outs == popHeap(s, fitness, last - 1, last - 1)
         IN  faults(outs) \cup
             UNION {sortHeap(t, fitness, last - 1) : t \in survivors(outs)}
    ELSE {Ok(s)}

partial_sort(s, fitness, middle) ==
    LET outs == heapSelect(s, fitness, middle)
    IN  faults(outs) \cup UNION {sortHeap(t, fitness, middle) : t \in survivors(outs)}

(* ---- state -------------------------------------------------------------- *)
VARIABLES
    mainpc,        \* where the orchestrating thread (main) stands
    phase,         \* which submit/await round main is in
    mi,            \* main's loop index (i of the submit loops, position in futures, worker being joined)
    generation,    \* the generation counter of line 165
    population,    \* std::vector<Genome> population
    fitness,       \* std::vector<int> fitness
    ready,         \* shared state of the future of each slot's task: TRUE once the task has run
    tasks,         \* ThreadPool::tasks, the FIFO queue (a task is named by the slot i it captured)
    stop,          \* ThreadPool::stop
    wpc,           \* where each worker thread stands
    wtask,         \* the task a worker holds after popping it (0: none)
    submitted,     \* history: the slots whose task has been pushed in the current round
    execCount,     \* history: how often each slot's task has run in the current round
    queuedAtStop,  \* history: the length of the queue when stop was set (0 before)
    sel,           \* history: the population before the last selection, and where each slot's genome came from
    best_fitness,  \* best_fitness of line 231 (0 before the first generation ends)
    rngDraws,      \* how many values the static generators of lines 92-94, 118-119, 129-130 have produced
    throwing,      \* the slots whose unit of work throws (none in main's tasks)
    got,           \* what get() on each slot's future handed to the pool's client
    call           \* the last call of a pure function under test, with its inputs and result

vars == <<mainpc, phase, mi, generation, population, fitness, ready, tasks, stop,
          wpc, wtask, submitted, execCount, queuedAtStop, sel, best_fitness,
          rngDraws, throwing, got, call>>

poolVars == <<tasks, stop, wpc, wtask>>
histVars == <<submitted, execCount, queuedAtStop>>
roundVars == <<ready, submitted, execCount>>
dataVars == <<population, fitness, sel, best_fitness, generation>>
auxVars == <<rngDraws, throwing, got>>

NoCall == [op |-> "none"]
NoSel == [before |-> <<>>, from |-> <<>>]

Min(S) == CHOOSE m \in S : \A n \in S : m <= n

(* a worker that takes the task pushed last *)
WorkerCheckNewestFirst(w) ==
    /\ wpc[w] = "check"
    /\ IF ~(stop \/ tasks # <<>>)
       THEN /\ wpc' = [wpc EXCEPT ![w] = "sleep"]
            /\ UNCHANGED <<tasks, wtask>>
       ELSE IF stop /\ tasks = <<>>
       THEN /\ wpc' = [wpc EXCEPT ![w] = "done"]
            /\ UNCHANGED <<tasks, wtask>>
       ELSE /\ wtask' = [wtask EXCEPT ![w] = tasks[Len(tasks)]]
            /\ tasks' = SubSeq(tasks, 1, Len(tasks) - 1)
            /\ wpc' = [wpc EXCEPT ![w] = "run"]
    /\ UNCHANGED <<mainpc, phase, mi, stop, ready, histVars, dataVars, auxVars, call>>

(* a worker that returns as soon as it sees stop, whatever the queue holds *)
WorkerCheckStopFirst(w) ==
    /\ wpc[w] = "check"
    /\ IF stop
       THEN /\ wpc' = [wpc EXCEPT ![w] = "done"]
            /\ UNCHANGED <<tasks, wtask>>
       ELSE IF tasks = <<>>
       THEN /\ wpc' = [wpc EXCEPT ![w] = "sleep"]
            /\ UNCHANGED <<tasks, wtask>>
       ELSE /\ wtask' = [wtask EXCEPT ![w] = Head(tasks)]
            /\ tasks' = Tail(tasks)
            /\ wpc' = [wpc EXCEPT ![w] = "run"]
    /\ UNCHANGED <<mainpc, phase, mi, stop, ready, histVars, dataVars, auxVars, call>>

(* ---- ThreadPool: worker threads (lines 51-64) -------------------------- *)
(* A worker holding queue_mutex evaluates the wait predicate of line 56.   *)
(* Predicate false: it releases the mutex and sleeps until notified.       *)
(* Predicate true: lines 57-60 run in the same critical section.           *)
WorkerCheck(w) ==
    /\ wpc[w] = "check"
    /\ IF ~(stop \/ tasks # <<>>)
       THEN /\ wpc' = [wpc EXCEPT ![w] = "sleep"]
            /\ UNCHANGED <<tasks, wtask>>
       ELSE IF stop /\ tasks = <<>>
       THEN /\ wpc' = [wpc EXCEPT ![w] = "done"]
            /\ UNCHANGED <<tasks, wtask>>
       ELSE /\ wtask' = [wtask EXCEPT ![w] = Head(tasks)]
            /\ tasks' = Tail(tasks)
            /\ wpc' = [wpc EXCEPT ![w] = "run"]
    /\ UNCHANGED <<mainpc, phase, mi, stop, ready, histVars, dataVars, auxVars, call>>

(* condition_variable::wait may return without a notification *)
SpuriousWake(w) ==
    /\ wpc[w] = "sleep"
    /\ wpc' = [wpc EXCEPT ![w] = "check"]
    /\ UNCHANGED <<mainpc, phase, mi, tasks, stop, wtask, ready, histVars, dataVars, auxVars, call>>

(* a task that evaluates its neighbour's genome instead of its own *)
taskResultWrongSlot(i) ==
    evaluateFitness(population[(i % POPULATION_SIZE) + 1], OpenMaze)

(* a re-evaluation task (lines 222-224) that evaluates its neighbour's     *)
(* genome, the first-round task (lines 172-174) being right                *)
taskResultReevalWrongSlot(i) ==
    IF phase = "reeval"
    THEN evaluateFitness(population[(i % POPULATION_SIZE) + 1], OpenMaze)
    ELSE evaluateFitness(population[i], OpenMaze)

(* each child costs one draw in crossover (line 121) and two in mutate     *)
(* (lines 133-134)                                                         *)
drawsPerChild == 3

(* a task that runs mutate on its genome: the two draws of lines 133-134 *)
taskDrawsAsMutate == drawsPerChild - 1

(* what an evaluation task draws from the generators: it calls            *)
(* evaluateFitness (lines 101-114) only, which uses none                   *)
taskDraws == 0

(* evaluateFitness(g, maze) for main's maze (line 152), tabulated over all *)
(* genomes as a set of <<genome, cost>> pairs                              *)
fitnessOnOpenMaze == {<<g, evaluateFitness(g, OpenMaze)>> : g \in Genome}

(* the body of an evaluation task, lines 172-174 (and 222-224) *)
taskResult(i) == (CHOOSE e \in fitnessOnOpenMaze : e[1] = population[i])[2]

(* a worker running the unit of work bare, not inside a packaged_task: an  *)
(* exception leaves the thread function and the worker is gone             *)
WorkerRunUnwrapped(w) ==
    /\ wpc[w] = "run"
    /\ IF wtask[w] \in throwing
       THEN /\ wpc' = [wpc EXCEPT ![w] = "done"]
            /\ UNCHANGED <<fitness, ready>>
       ELSE /\ fitness' = [fitness EXCEPT ![wtask[w]] = taskResult(wtask[w])]
            /\ ready' = [ready EXCEPT ![wtask[w]] = TRUE]
            /\ wpc' = [wpc EXCEPT ![w] = "check"]
    /\ execCount' = [execCount EXCEPT ![wtask[w]] = @ + 1]
    /\ wtask' = [wtask EXCEPT ![w] = 0]
    /\ UNCHANGED <<mainpc, phase, mi, tasks, stop, population, sel, best_fitness,
                   generation, submitted, queuedAtStop, auxVars, call>>

(* line 62: task.func() runs the packaged_task of lines 80-84, which runs  *)
(* the unit of work and then makes the future ready: with the result, or   *)
(* with the exception the work threw (the work then wrote nothing)         *)
WorkerRun(w) ==
    /\ wpc[w] = "run"
    /\ fitness' = IF wtask[w] \in throwing
                  THEN fitness
                  ELSE [fitness EXCEPT ![wtask[w]] = taskResult(wtask[w])]
    /\ ready' = [ready EXCEPT ![wtask[w]] = TRUE]
    /\ rngDraws' = rngDraws + taskDraws
    /\ execCount' = [execCount EXCEPT ![wtask[w]] = @ + 1]
    /\ wtask' = [wtask EXCEPT ![w] = 0]
    /\ wpc' = [wpc EXCEPT ![w] = "check"]
    /\ UNCHANGED <<mainpc, phase, mi, tasks, stop, population, sel, best_fitness,
                   generation, submitted, queuedAtStop, throwing, got, call>>

(* ---- ThreadPool::enqueue (lines 78-88) ---------------------------------- *)
(* lines 82-85: the push, under queue_mutex *)
pushTask(i) == tasks' = Append(tasks, i)

(* an enqueue that pushes and notifies nobody *)
notifyNobody == UNCHANGED wpc

(* line 86: notify_one wakes one sleeping worker, if there is one *)
notifyOne ==
    IF \E w \in Workers : wpc[w] = "sleep"
    THEN \E w \in Workers : wpc[w] = "sleep" /\ wpc' = [wpc EXCEPT ![w] = "check"]
    ELSE UNCHANGED wpc

(* line 73: notify_all wakes every sleeping worker *)
notifyAll == wpc' = [w \in Workers |-> IF wpc[w] = "sleep" THEN "check" ELSE wpc[w]]

(* ---- main: the submit and await loops (lines 171-178, 221-228) --------- *)
SubmitPush ==
    /\ mainpc = "push"
    /\ pushTask(mi)
    /\ submitted' = submitted \cup {mi}
    /\ mainpc' = "notify"
    /\ UNCHANGED <<phase, mi, stop, wpc, wtask, ready, execCount, queuedAtStop, dataVars, auxVars, call>>

SubmitNotify ==
    /\ mainpc = "notify"
    /\ notifyOne
    /\ IF mi < POPULATION_SIZE
       THEN mi' = mi + 1 /\ mainpc' = "push"
       ELSE mi' = 1 /\ mainpc' = "get"
    /\ UNCHANGED <<phase, tasks, stop, wtask, ready, histVars, dataVars, auxVars, call>>

(* a get() that does not wait *)
futureReadyNoWait(i) == TRUE

(* future.get() returns once the future is ready *)
futureReady(i) == ready[i]

(* an await loop that waits for the last future only *)
FutureGetLastOnly ==
    /\ mainpc = "get"
    /\ futureReady(POPULATION_SIZE)
    /\ mi' = 1
    /\ mainpc' = (IF phase = "eval" THEN "select" ELSE "best")
    /\ UNCHANGED <<phase, poolVars, ready, histVars, dataVars, auxVars, call>>

FutureGet ==
    /\ mainpc = "get"
    /\ futureReady(mi)
    /\ IF mi < POPULATION_SIZE
       THEN mi' = mi + 1 /\ UNCHANGED mainpc
       ELSE mi' = 1 /\ mainpc' = (IF phase = "eval" THEN "select" ELSE "best")
    /\ UNCHANGED <<phase, poolVars, ready, histVars, dataVars, auxVars, call>>

(* ---- main: selection (lines 189-193) ------------------------------------ *)
Identity == [i \in Slots |-> i]

(* what the partial_sort of line 190 can leave in the vector: for each     *)
(* slot, the slot (before the sort) its genome came from                   *)
selectionOutcomes(fit) == partial_sort(Identity, fit, POPULATION_SIZE \div 2)

Select ==
    /\ mainpc = "select"
    /\ \E o \in selectionOutcomes(fitness) :
          IF o.crashed
          THEN /\ mainpc' = "crashed"
               /\ UNCHANGED <<population, sel>>
          ELSE /\ population' = [i \in Slots |-> population[o.s[i]]]
               /\ sel' = [before |-> population, from |-> o.s]
               /\ mainpc' = "assemble"
    /\ UNCHANGED <<phase, mi, generation, fitness, best_fitness, poolVars, ready,
                   histVars, auxVars, call>>

(* ---- main: crossover, mutation, replacement (lines 203-210, 220) ------- *)
(* an iteration that takes the second parent from the whole vector's far  *)
(* end instead of the elite half's                                         *)
assemblePairFarPartner(pop, i, d) ==
    <<pop[i],
      mutate(crossover(pop[i], pop[POPULATION_SIZE - i + 1], d.crossover_point),
             d.mutation_point, d.dir)>>

(* an iteration that pushes the elite genome and no child *)
assemblePairEliteOnly(pop, i, d) == <<pop[i]>>

(* one iteration of the loop of lines 203-208: the two push_backs; d holds *)
(* the iteration's random draws                                            *)
assemblePair(pop, i, d) ==
    <<pop[i],
      mutate(crossover(pop[i], pop[POPULATION_SIZE \div 2 - i + 1], d.crossover_point),
             d.mutation_point, d.dir)>>

RECURSIVE assembleFrom(_, _, _)
assembleFrom(pop, draws, i) ==
    IF i > POPULATION_SIZE \div 2 THEN <<>>
    ELSE assemblePair(pop, i, draws[i]) \o assembleFrom(pop, draws, i + 1)

new_population(pop, draws) == assembleFrom(pop, draws, 1)

(* what one iteration can draw (lines 121, 133, 134) *)
Draw == [crossover_point : PointDraws, mutation_point : PointDraws, dir : DirDraws]

(* The draws the program as a whole is run with.  Every draw multiplies    *)
(* the populations of all later generations, so the driver is explored     *)
(* with this one draw per child (a proper split, a mutation of the last    *)
(* locus); crossover and mutate are checked over all of Draw on their own. *)
DriverDraws ==
    {d \in Draw : /\ d.crossover_point = GENOME_LENGTH - 1
                  /\ d.mutation_point = GENOME_LENGTH - 1
                  /\ d.dir = RIGHT}

(* line 167 and line 220: a fresh (cleared) vector of futures *)
freshFutures ==
    /\ ready' = [i \in Slots |-> FALSE]
    /\ submitted' = {}
    /\ execCount' = [i \in Slots |-> 0]

Assemble ==
    /\ mainpc = "assemble"
    /\ \E draws \in [1..(POPULATION_SIZE \div 2) -> DriverDraws] :
          /\ population' = new_population(population, draws)
    /\ rngDraws' = rngDraws + drawsPerChild * (POPULATION_SIZE \div 2)
    /\ sel' = NoSel
    /\ phase' = "reeval"
    /\ mainpc' = "push"
    /\ mi' = 1
    /\ freshFutures
    /\ UNCHANGED <<generation, fitness, best_fitness, poolVars, queuedAtStop, throwing, got, call>>

(* ---- main: best fitness and the loop's step (lines 231, 165-167) ------- *)
minElement(fit) == Min({fit[i] : i \in 1..Len(fit)})

Best ==
    /\ mainpc = "best"
    /\ best_fitness' = minElement(fitness)
    /\ generation' = generation + 1
    /\ IF generation + 1 < GENERATIONS
       THEN /\ mainpc' = "push"
            /\ phase' = "eval"
            /\ freshFutures
       ELSE /\ mainpc' = "dtor_stop"
            /\ UNCHANGED <<phase, roundVars>>
    /\ UNCHANGED <<mi, population, fitness, sel, poolVars, queuedAtStop,
                   rngDraws, throwing, got, call>>

(* ---- ThreadPool::~ThreadPool (lines 68-76) ------------------------------ *)
DtorStop ==
    /\ mainpc = "dtor_stop"
    /\ stop' = TRUE
    /\ queuedAtStop' = Len(tasks)
    /\ mainpc' = "dtor_notify"
    /\ UNCHANGED <<phase, mi, tasks, wpc, wtask, roundVars, dataVars, auxVars, call>>

DtorNotifyAll ==
    /\ mainpc = "dtor_notify"
    /\ notifyAll
    /\ mainpc' = "dtor_join"
    /\ mi' = 1
    /\ UNCHANGED <<phase, tasks, stop, wtask, ready, histVars, dataVars, auxVars, call>>

(* worker.join() returns once the worker has returned *)
DtorJoin ==
    /\ mainpc = "dtor_join"
    /\ wpc[mi] = "done"
    /\ IF mi < THREAD_COUNT
       THEN mi' = mi + 1 /\ UNCHANGED mainpc
       ELSE mi' = 1 /\ mainpc' = "exit"
    /\ UNCHANGED <<phase, poolVars, ready, histVars, dataVars, auxVars, call>>

(* ---- the program: main() with its pool ---------------------------------- *)
(* the initial population (lines 160-163) is drawn from InitGenomes, a     *)
(* subset of the genomes generateRandomGenome can return                   *)
InitGenomes ==
    {[j \in 1..GENOME_LENGTH |-> IF j = 1 THEN DOWN ELSE UP],
     [j \in 1..GENOME_LENGTH |-> IF j = GENOME_LENGTH THEN DOWN ELSE STAND]}

PoolInit ==
    /\ tasks = <<>>
    /\ stop = FALSE
    /\ wpc = [w \in Workers |-> "check"]
    /\ wtask = [w \in Workers |-> 0]

Init ==
    /\ PoolInit
    /\ mainpc = "push"
    /\ phase = "eval"
    /\ mi = 1
    /\ generation = 0
    /\ population \in [Slots -> InitGenomes]
    /\ fitness = [i \in Slots |-> 0]
    /\ ready = [i \in Slots |-> FALSE]
    /\ submitted = {}
    /\ execCount = [i \in Slots |-> 0]
    /\ queuedAtStop = 0
    /\ sel = NoSel
    /\ best_fitness = 0
    /\ rngDraws = POPULATION_SIZE * GENOME_LENGTH
    /\ throwing = {}
    /\ got = [i \in Slots |-> "none"]
    /\ call = NoCall

Next ==
    \/ SubmitPush
    \/ SubmitNotify
    \/ FutureGet
    \/ Select
    \/ Assemble
    \/ Best
    \/ DtorStop
    \/ DtorNotifyAll
    \/ DtorJoin
    \/ \E w \in Workers : WorkerCheck(w)
    \/ \E w \in Workers : SpuriousWake(w)
    \/ \E w \in Workers : WorkerRun(w)

Spec == Init /\ [][Next]_vars

(* The scheduler lets every thread that can take a step take one: main     *)
(* (line 151 on) and each worker (the loop of lines 52-63).  A wait that   *)
(* returns without a notification is allowed but never owed.               *)
mainStep ==
    \/ SubmitPush
    \/ SubmitNotify
    \/ FutureGet
    \/ Select
    \/ Assemble
    \/ Best
    \/ DtorStop
    \/ DtorNotifyAll
    \/ DtorJoin

workerStep(w) == WorkerCheck(w) \/ WorkerRun(w)

Fairness == WF_vars(mainStep) /\ \A w \in Workers : WF_vars(workerStep(w))

FairSpec == Init /\ [][Next]_vars /\ Fairness

(* ---- the pool on its own: a client that submits and then destroys it ---- *)
(* The client thread calls enqueue for slots 1, 2, ... (the tasks of lines *)
(* 172-174), awaits nothing, and may let the pool go out of scope after    *)
(* any number of submissions: ~ThreadPool then runs with tasks queued.     *)
ClientPush ==
    /\ mainpc = "client"
    /\ mi <= POPULATION_SIZE
    /\ pushTask(mi)
    /\ submitted' = submitted \cup {mi}
    /\ mainpc' = "client_notify"
    /\ UNCHANGED <<phase, mi, stop, wpc, wtask, ready, execCount, queuedAtStop, dataVars, auxVars, call>>

ClientNotify ==
    /\ mainpc = "client_notify"
    /\ notifyOne
    /\ mi' = mi + 1
    /\ mainpc' = "client"
    /\ UNCHANGED <<phase, tasks, stop, wtask, ready, histVars, dataVars, auxVars, call>>

ClientShutdown ==
    /\ mainpc = "client"
    /\ mainpc' = "dtor_stop"
    /\ UNCHANGED <<phase, mi, poolVars, ready, histVars, dataVars, auxVars, call>>

(* enqueue (lines 78-88) called by another thread while the destructor is  *)
(* running (stop is set, the workers are not yet all joined)               *)
LateEnqueue ==
    /\ stop
    /\ mainpc \in {"dtor_notify", "dtor_join"}
    /\ \E i \in Slots \ submitted :
          /\ pushTask(i)
          /\ submitted' = submitted \cup {i}
    /\ notifyOne
    /\ UNCHANGED <<mainpc, phase, mi, stop, wtask, ready, execCount, queuedAtStop, dataVars, auxVars, call>>

PoolClientInit ==
    /\ PoolInit
    /\ mainpc = "client"
    /\ phase = "client"
    /\ mi = 1
    /\ generation = 0
    /\ population \in [Slots -> InitGenomes]
    /\ fitness = [i \in Slots |-> 0]
    /\ ready = [i \in Slots |-> FALSE]
    /\ submitted = {}
    /\ execCount = [i \in Slots |-> 0]
    /\ queuedAtStop = 0
    /\ sel = NoSel
    /\ best_fitness = 0
    /\ rngDraws = 0
    /\ throwing = {}
    /\ got = [i \in Slots |-> "none"]
    /\ call = NoCall

PoolNext ==
    \/ ClientPush
    \/ ClientNotify
    \/ ClientShutdown
    \/ DtorStop
    \/ DtorNotifyAll
    \/ DtorJoin
    \/ \E w \in Workers : WorkerCheck(w)
    \/ \E w \in Workers : SpuriousWake(w)
    \/ \E w \in Workers : WorkerRun(w)

SpecPool == PoolClientInit /\ [][PoolNext]_vars

LateNext == PoolNext \/ LateEnqueue

SpecLate == PoolClientInit /\ [][LateNext]_vars

(* ---- the pool given work that throws ------------------------------------ *)
(* The client submits a task for every slot, awaits every future in turn   *)
(* (get() hands it the result, or rethrows what the work threw, which the  *)
(* client catches), and then lets the pool go out of scope.  The work of   *)
(* the slots in throwing throws.                                           *)
ClientAwait ==
    /\ mainpc = "client"
    /\ mi > POPULATION_SIZE
    /\ mainpc' = "client_get"
    /\ mi' = 1
    /\ UNCHANGED <<phase, poolVars, ready, histVars, dataVars, auxVars, call>>

ClientGet ==
    /\ mainpc = "client_get"
    /\ futureReady(mi)
    /\ got' = [got EXCEPT ![mi] = IF mi \in throwing THEN "exception" ELSE "value"]
    /\ IF mi < POPULATION_SIZE
       THEN mi' = mi + 1 /\ UNCHANGED mainpc
       ELSE mi' = 1 /\ mainpc' = "dtor_stop"
    /\ UNCHANGED <<phase, poolVars, ready, histVars, dataVars, rngDraws, throwing, call>>

(* which tasks throw: none, any one, any two, or all of them *)
ThrowingSets == {T \in SUBSET Slots : Cardinality(T) <= 2} \cup {Slots}

ThrowingInit ==
    /\ PoolInit
    /\ mainpc = "client"
    /\ phase = "client"
    /\ mi = 1
    /\ generation = 0
    /\ population = [i \in Slots |-> [j \in 1..GENOME_LENGTH |-> DOWN]]
    /\ fitness = [i \in Slots |-> 0]
    /\ ready = [i \in Slots |-> FALSE]
    /\ submitted = {}
    /\ execCount = [i \in Slots |-> 0]
    /\ queuedAtStop = 0
    /\ sel = NoSel
    /\ best_fitness = 0
    /\ rngDraws = 0
    /\ throwing \in ThrowingSets
    /\ got = [i \in Slots |-> "none"]
    /\ call = NoCall

clientStep ==
    \/ ClientPush
    \/ ClientNotify
    \/ ClientAwait
    \/ ClientGet
    \/ DtorStop
    \/ DtorNotifyAll
    \/ DtorJoin

ThrowingNext ==
    \/ ClientPush
    \/ ClientNotify
    \/ ClientAwait
    \/ ClientGet
    \/ DtorStop
    \/ DtorNotifyAll
    \/ DtorJoin
    \/ \E w \in Workers : WorkerCheck(w)
    \/ \E w \in Workers : SpuriousWake(w)
    \/ \E w \in Workers : WorkerRun(w)

SpecThrowing ==
    /\ ThrowingInit
    /\ [][ThrowingNext]_vars
    /\ WF_vars(clientStep)
    /\ \A w \in Workers : WF_vars(workerStep(w))

(* ---- the pure functions on their own ------------------------------------ *)
(* no thread runs; call holds the inputs, then the call and its result     *)
NoProgram ==
    /\ mainpc = "none"
    /\ phase = "none"
    /\ mi = 1
    /\ generation = 0
    /\ population = <<>>
    /\ fitness = <<>>
    /\ ready = <<>>
    /\ tasks = <<>>
    /\ stop = FALSE
    /\ wpc = <<>>
    /\ wtask = <<>>
    /\ submitted = {}
    /\ execCount = <<>>
    /\ queuedAtStop = 0
    /\ sel = NoSel
    /\ best_fitness = 0
    /\ rngDraws = 0
    /\ throwing = {}
    /\ got = <<>>

progVars == <<mainpc, phase, mi, generation, population, fitness, ready, tasks, stop,
              wpc, wtask, submitted, execCount, queuedAtStop, sel, best_fitness,
              rngDraws, throwing, got>>

EvalInit ==
    /\ NoProgram
    /\ call \in {[op |-> "input", genome |-> g, maze |-> m] : g \in Genome, m \in Maze}

Evaluate ==
    /\ call.op = "input"
    /\ call' = [op |-> "evaluateFitness", genome |-> call.genome, maze |-> call.maze,
                trace |-> walkTrace(call.genome, call.maze),
                result |-> evaluateFitness(call.genome, call.maze)]
    /\ UNCHANGED progVars

EvalNext == Evaluate

SpecEval == EvalInit /\ [][EvalNext]_vars

OpsInit ==
    /\ NoProgram
    /\ call \in {[op |-> "input", parent1 |-> a, parent2 |-> b] : a \in Genome, b \in Genome}

Mutate ==
    /\ call.op = "input"
    /\ \E p \in PointDraws, d \in DirDraws :
          call' = [op |-> "mutate", genome |-> call.parent1, mutation_point |-> p,
                   dir |-> d, out |-> mutate(call.parent1, p, d)]
    /\ UNCHANGED progVars

Crossover ==
    /\ call.op = "input"
    /\ \E k \in PointDraws :
          call' = [op |-> "crossover", parent1 |-> call.parent1, parent2 |-> call.parent2,
                   crossover_point |-> k,
                   child |-> crossover(call.parent1, call.parent2, k)]
    /\ UNCHANGED progVars

OpsNext == Mutate \/ Crossover

SpecOps == OpsInit /\ [][OpsNext]_vars

(* the loop of lines 203-208 on its own: a selected population of genomes  *)
(* that go up or down only, and draws whose mutation writes LEFT or RIGHT  *)
AsmGenomes == {[j \in 1..GENOME_LENGTH |-> UP], [j \in 1..GENOME_LENGTH |-> DOWN]}
AsmDraws == {d \in Draw : d.dir \in {LEFT, RIGHT}}

AsmInit ==
    /\ NoProgram
    /\ call \in {[op |-> "selected", pop |-> q, draws |-> ds] :
                    q \in [Slots -> AsmGenomes],
                    ds \in [1..(POPULATION_SIZE \div 2) -> AsmDraws]}

AssembleCall ==
    /\ call.op = "selected"
    /\ call' = [op |-> "assemble", pop |-> call.pop, draws |-> call.draws,
                out |-> new_population(call.pop, call.draws)]
    /\ UNCHANGED progVars

AsmNext == AssembleCall

SpecAsm == AsmInit /\ [][AsmNext]_vars

(* ======================================================================== *)
(* Properties                                                               *)
(* ======================================================================== *)
Quiescent == tasks = <<>> /\ \A w \in Workers : wpc[w] # "run"
AllExecuted == \A i \in Slots : execCount[i] >= 1
RoundStart == mainpc = "push" /\ submitted = {}

(* C1: selection starts, the population is replaced and the next round is  *)
(* submitted only when every task of the round before has been executed    *)
(* and none is queued or running.                                           *)
BarrierBeforeSelection ==
    /\ mainpc \in {"select", "assemble", "best"} => Quiescent /\ AllExecuted
    /\ RoundStart => Quiescent

BarrierReached ==
    /\ mainpc = "select"
    /\ generation = GENERATIONS - 1
    /\ Quiescent
    /\ AllExecuted

(* C2: once main has awaited all P futures of a round, fitness[i] is        *)
(* evaluateFitness(population[i]) for every slot, and every task of the    *)
(* round has run exactly once (and none ever runs twice).                   *)
ParallelEqualsSequential ==
    /\ \A i \in Slots : execCount[i] <= 1
    /\ mainpc \in {"select", "best"} =>
          \A i \in Slots : /\ execCount[i] = 1
                           /\ fitness[i] = evaluateFitness(population[i], OpenMaze)

AwaitedRound ==
    /\ mainpc = "best"
    /\ \A i \in Slots : execCount[i] = 1
    /\ \E i, j \in Slots : fitness[i] # fitness[j]

(* the cost the fitness table recorded for the genome now in slot a, at    *)
(* the slot the genome held before selection                               *)
recordedCost(a) == fitness[sel.from[a]]
Elite == 1..(POPULATION_SIZE \div 2)
Rest == Slots \ Elite
Selected == mainpc = "assemble"

(* C3: after selection the first P/2 slots hold the P/2 lowest-cost        *)
(* genomes (by the cost recorded at their original slot), and the          *)
(* population is a permutation of the one before.                           *)
SelectionPicksLowest ==
    Selected =>
        /\ \A a \in Elite, b \in Rest : recordedCost(a) <= recordedCost(b)
        /\ {sel.from[i] : i \in Slots} = Slots
        /\ \A i \in Slots : population[i] = sel.before[sel.from[i]]

(* C9: selection is stable: equal-cost genomes of the elite half keep      *)
(* their original order, and of a tie across the cut the lower original    *)
(* slots are the ones selected.                                             *)
SelectionStable ==
    Selected =>
        /\ \A a, b \in Elite :
              a < b /\ recordedCost(a) = recordedCost(b) => sel.from[a] < sel.from[b]
        /\ \A a \in Elite, b \in Rest :
              recordedCost(a) = recordedCost(b) => sel.from[a] < sel.from[b]

Evaluated == call.op = "evaluateFitness"
lastOf(t) == IF t = <<>> THEN StartPos ELSE t[Len(t)]
Target == [x |-> MAZE_SIZE - 1, y |-> MAZE_SIZE - 1]
Abs(n) == IF n < 0 THEN -n ELSE n
Manhattan(p, q) == Abs(p.x - q.x) + Abs(p.y - q.y)

(* C4: the cost is the Manhattan distance from the walk's final position   *)
(* to the target cell (N-1, N-1), and is 0 exactly when the walk ends      *)
(* there.                                                                   *)
CostIsDistanceToTarget ==
    Evaluated =>
        /\ call.result = Manhattan(lastOf(call.trace), Target)
        /\ (call.result = 0) <=> (lastOf(call.trace) = Target)

(* C5: the destructor returns only after every task submitted before it    *)
(* has run (once) and every worker has returned; no worker returns while   *)
(* the queue holds a task, and the queue is empty at the end.              *)
ShutdownDrains ==
    /\ mainpc = "exit" =>
          /\ \A w \in Workers : wpc[w] = "done"
          /\ tasks = <<>>
          /\ \A i \in submitted : execCount[i] = 1
    /\ (\E w \in Workers : wpc[w] = "done") => tasks = <<>>

DrainedShutdown ==
    /\ mainpc = "exit"
    /\ queuedAtStop >= 2
    /\ submitted = Slots

(* C6: once stop is set, enqueue adds nothing to the queue.                *)
NoEnqueueAfterStop == [][stop => Len(tasks') <= Len(tasks)]_vars

(* C7: population and fitness hold exactly P entries, at the start and the *)
(* end of every generation and at every step between.                      *)
SizesPreserved ==
    /\ Len(population) = POPULATION_SIZE
    /\ Len(fitness) = POPULATION_SIZE

LastGenerationEnded ==
    /\ mainpc = "dtor_stop"
    /\ generation = GENERATIONS
    /\ Len(population) = POPULATION_SIZE

Mutated == call.op = "mutate"
changedLoci == {j \in 1..GENOME_LENGTH : call.out[j] # call.genome[j]}

(* C8 as claimed: mutate changes exactly one locus.                        *)
MutateChangesExactlyOne ==
    Mutated =>
        /\ Cardinality(changedLoci) = 1
        /\ call.mutation_point \in 0..(GENOME_LENGTH - 1)
        /\ \A j \in 1..GENOME_LENGTH : call.out[j] \in Direction

(* C8 amended: mutate writes one locus in [0, L-1] with a valid move, so   *)
(* the result has length L and differs from the input at no locus other    *)
(* than that one (at none when the move drawn is the one already there).   *)
MutateChangesAtMostOne ==
    Mutated =>
        /\ Len(call.out) = GENOME_LENGTH
        /\ call.mutation_point \in 0..(GENOME_LENGTH - 1)
        /\ changedLoci \subseteq {call.mutation_point + 1}
        /\ call.out[call.mutation_point + 1] = call.dir
        /\ \A j \in 1..GENOME_LENGTH : call.out[j] \in Direction

MutateChangedOne == Mutated /\ Cardinality(changedLoci) = 1

(* the move's displacement, and the position after a move that stays put   *)
(* when the displaced position is off the grid                             *)
delta(move) ==
    CASE move = UP    -> [x |-> 0, y |-> -1]
      [] move = DOWN  -> [x |-> 0, y |-> 1]
      [] move = LEFT  -> [x |-> -1, y |-> 0]
      [] move = RIGHT -> [x |-> 1, y |-> 0]
      [] OTHER        -> [x |-> 0, y |-> 0]
stepOrStay(pos, move) ==
    LET q == [x |-> pos.x + delta(move).x, y |-> pos.y + delta(move).y]
    IN  IF InGrid(q) THEN q ELSE pos
posBefore(t, j) == IF j = 1 THEN StartPos ELSE t[j - 1]

(* C10: the walk starts at (0,0) and applies the moves in genome order, a  *)
(* move off the grid leaving the position unchanged; every lookup is in    *)
(* the grid; the walk stops right after the first lookup that finds a wall *)
(* and not before; the result is (N - finalY) + (N - finalX).              *)
WalkAsSpecified ==
    Evaluated =>
        LET t == call.trace
            g == call.genome
        IN  /\ Len(t) <= Len(g)
            /\ \A j \in 1..Len(t) : /\ InGrid(t[j])
                                    /\ t[j] = stepOrStay(posBefore(t, j), g[j])
            /\ \A j \in 1..(Len(t) - 1) : call.maze[t[j].y][t[j].x] = 0
            /\ Len(t) < Len(g) => call.maze[lastOf(t).y][lastOf(t).x] = 1
            /\ call.result = (MAZE_SIZE - lastOf(t).y) + (MAZE_SIZE - lastOf(t).x)

(* wall at (1,0), genome RIGHT then DOWN...: the walk stops at (1,0) *)
WalkStoppedAtWall ==
    /\ Evaluated
    /\ call.maze[0][1] = 1
    /\ call.genome[1] = RIGHT
    /\ \A j \in 2..GENOME_LENGTH : call.genome[j] = DOWN
    /\ Len(call.trace) = 1
    /\ call.result = 2 * MAZE_SIZE - 1


Crossed == call.op = "crossover"

(* C11: for every pair of parents and every split point k in [0, L-1] the  *)
(* child has length L, agrees with parent1 on loci [0, k) and with parent2 *)
(* on loci [k, L).  (The parents are const references: the call record     *)
(* keeps them as given.)                                                   *)
CrossoverSplices ==
    Crossed =>
        LET k == call.crossover_point
        IN  /\ k \in 0..(GENOME_LENGTH - 1)
            /\ Len(call.child) = GENOME_LENGTH
            /\ \A j \in 1..GENOME_LENGTH :
                  call.child[j] = IF j <= k THEN call.parent1[j] ELSE call.parent2[j]

(* a proper split of two parents that differ at every locus *)
CrossedProperSplit ==
    /\ Crossed
    /\ call.crossover_point = GENOME_LENGTH - 1
    /\ \A j \in 1..GENOME_LENGTH : call.parent1[j] = UP /\ call.parent2[j] = DOWN
    /\ call.child # call.parent1
    /\ call.child # call.parent2


Assembled == call.op = "assemble"
elite(i) == call.pop[i]
partner(i) == call.pop[POPULATION_SIZE \div 2 - i + 1]

(* C12: in the assembled population, counting elite indices from 1, slot   *)
(* 2i-1 holds elite genome i unchanged and slot 2i holds the child of      *)
(* elite i and elite P/2-i+1: elite i's moves up to the crossover point,   *)
(* the partner's moves after it, and the drawn move at the mutation point. *)
AssemblyInterleaves ==
    Assembled =>
        /\ Len(call.out) = POPULATION_SIZE
        /\ \A i \in 1..(POPULATION_SIZE \div 2) :
              LET d == call.draws[i]
              IN  /\ call.out[2 * i - 1] = elite(i)
                  /\ Len(call.out[2 * i]) = GENOME_LENGTH
                  /\ \A j \in 1..GENOME_LENGTH :
                        call.out[2 * i][j] =
                            IF j = d.mutation_point + 1 THEN d.dir
                            ELSE IF j <= d.crossover_point THEN elite(i)[j]
                            ELSE partner(i)[j]

AssembledFromDistinctParents ==
    /\ Assembled
    /\ \E i \in 1..(POPULATION_SIZE \div 2) :
          /\ elite(i) # partner(i)
          /\ call.draws[i].crossover_point = GENOME_LENGTH - 1
          /\ call.draws[i].mutation_point = 0
          /\ call.out[2 * i][GENOME_LENGTH] = partner(i)[GENOME_LENGTH]
          /\ call.out[2 * i] # elite(i)
          /\ call.out[2 * i] # partner(i)
          /\ \E q \in (POPULATION_SIZE \div 2 + 1)..POPULATION_SIZE : call.pop[q] # partner(i)


(* C13: with every thread scheduled fairly, main comes to its end having   *)
(* run all GENERATIONS generations.                                         *)
DriverRunsAllGenerations == <>(mainpc = "exit" /\ generation = GENERATIONS)

(* what does hold: main always stops, at its end or in the fault of the    *)
(* selection, and reaches its end only with all generations run            *)
DriverStopsSomewhere == <>(mainpc \in {"exit", "crashed"})
ExitOnlyAfterAllGenerations == mainpc \in {"dtor_stop", "dtor_notify", "dtor_join", "exit"} => generation = GENERATIONS


Delivered(i) == IF i \in throwing THEN "exception" ELSE "value"

FailureContainedNow ==
    /\ \A i \in Slots : got[i] # "none" => got[i] = Delivered(i) /\ execCount[i] = 1
    /\ \A w \in Workers : wpc[w] = "done" => stop
    /\ stop => \A i \in Slots : got[i] = Delivered(i) /\ execCount[i] = 1 /\ ready[i]

(* C14: a unit of work that throws hands its failure to the get() on its   *)
(* own future and to no other; no worker ends before the pool is shut down;*)
(* every task, thrown or not, runs once and is delivered, and the client   *)
(* gets through all its awaits and the shutdown.                           *)
FailureContained == []FailureContainedNow /\ <>(mainpc = "exit")

FailureWasDelivered ==
    /\ mainpc = "exit"
    /\ throwing # {}
    /\ throwing # Slots
    /\ \E i \in throwing, j \in Slots \ throwing :
          i < j /\ got[i] = "exception" /\ got[j] = "value"


AllAsleep == \A w \in Workers : wpc[w] = "sleep"

(* C15: get() on a future returns only when that future's own task has    *)
(* run; a queued task is never left with every worker asleep and no        *)
(* notification on its way; and with fair scheduling every submitted task  *)
(* is taken from the queue and its future becomes ready.                    *)
EveryTaskCompletes ==
    /\ [][\A i \in Slots : got'[i] # got[i] => ready[i] /\ execCount[i] >= 1]_vars
    /\ [](tasks # <<>> /\ AllAsleep => mainpc = "client_notify")
    /\ [](\A i \in Slots : ready[i] => i \in submitted /\ execCount[i] >= 1)
    /\ <>(\A i \in Slots : i \in submitted /\ ready[i])

SleepersAwaitNotification ==
    /\ tasks # <<>>
    /\ AllAsleep
    /\ mainpc = "client_notify"
    /\ \E i \in Slots : ready[i]


Queued == {tasks[k] : k \in 1..Len(tasks)}
Taken == submitted \ Queued

(* C16: tasks leave the queue in the order they were submitted.  Within a  *)
(* round slot i's task is the i-th submitted, so: the queue holds tasks in *)
(* rising slot order, and every task already taken was submitted before    *)
(* every task still queued.                                                *)
TasksLeaveInSubmissionOrder ==
    /\ \A a, b \in 1..Len(tasks) : a < b => tasks[a] < tasks[b]
    /\ \A i \in Taken : \A t \in Queued : i < t

TakenFromLongQueue ==
    /\ Len(tasks) >= 2
    /\ \E w \in Workers : wpc[w] = "run"
    /\ \E i \in Taken : ready[i]


queuedFor(i) == Cardinality({k \in 1..Len(tasks) : tasks[k] = i})
runningFor(i) == Cardinality({w \in Workers : wpc[w] = "run" /\ wtask[w] = i})

(* C17: for every slot i at most one task that writes fitness[i] (and      *)
(* reads population[i]) is queued or running, in both rounds of every      *)
(* generation; and while main sorts or replaces the population, or reads   *)
(* the fitness table, no task is queued or running at all.                 *)
OneTaskPerSlot ==
    /\ \A i \in Slots : queuedFor(i) + runningFor(i) <= 1
    /\ mainpc \in {"select", "assemble", "best", "crashed"} =>
          \A i \in Slots : queuedFor(i) + runningFor(i) = 0

TwoSlotsInFlight ==
    /\ phase = "reeval"
    /\ generation >= 1
    /\ \E i, j \in Slots : i # j /\ runningFor(i) = 1 /\ runningFor(j) = 1
    /\ \E i \in Slots : queuedFor(i) = 1


assembliesDone == generation + (IF phase = "reeval" /\ generation < GENERATIONS THEN 1 ELSE 0)

(* C18: the generators are used by main only: the number of values drawn   *)
(* is at every moment what the initial population and main's completed     *)
(* assemblies account for, and a step that draws is main's assembly step,  *)
(* taken while no task is queued or running and changing no worker.        *)
GeneratorsUsedByMainOnly ==
    /\ [](rngDraws = POPULATION_SIZE * GENOME_LENGTH
                       + assembliesDone * drawsPerChild * (POPULATION_SIZE \div 2))
    /\ [][rngDraws' # rngDraws =>
             /\ mainpc = "assemble"
             /\ Quiescent
             /\ wpc' = wpc /\ wtask' = wtask /\ fitness' = fitness]_vars

DrawnBetweenRounds ==
    /\ generation >= 1
    /\ phase = "reeval"
    /\ rngDraws > POPULATION_SIZE * GENOME_LENGTH + drawsPerChild * (POPULATION_SIZE \div 2)
    /\ \E w \in Workers : wpc[w] = "run"


(* C19: from the end of the re-evaluation of generation g to the end of    *)
(* the evaluation that opens generation g+1 neither the population nor any *)
(* entry of the fitness table changes: each task of the opening evaluation *)
(* writes the value the re-evaluation left in its slot.                    *)
ReevaluationRepeated ==
    [][(\/ mainpc = "best"
        \/ generation >= 1 /\ phase = "eval" /\ mainpc \in {"push", "notify", "get"})
       => population' = population /\ fitness' = fitness]_vars

EvaluatedAgain ==
    /\ generation >= 1
    /\ phase = "eval"
    /\ mainpc = "select"
    /\ AllExecuted
    /\ \E i, j \in Slots : fitness[i] # fitness[j]


(* C20: the best fitness recorded at the end of a generation (line 231) is *)
(* never above the one recorded at the end of the generation before.       *)
BestFitnessMonotone ==
    [][mainpc = "best" /\ generation >= 1 => best_fitness' <= best_fitness]_vars

====
